---- MODULE Spec2Model ----
(***************************************************************************)
(* Model of the PK2 archive index engine: the on-disk blocks, the          *)
(* in-memory BlockManager, the path resolver and the create_file /         *)
(* delete_file mutations of Pk2 (src/src/archive.rs, src/src/raw/*.rs).    *)
(*                                                                         *)
(* A path is the sequence of its components after check_root stripped the  *)
(* leading "/": <<"d", "..", "a">> is "/d/../a".                           *)
(***************************************************************************)
EXTENDS Integers, Sequences, FiniteSets, TLC

(***************************************************************************)
(* Program constants.                                                      *)
(***************************************************************************)
PK2_FILE_BLOCK_ENTRY_COUNT == 20
PK2_FILE_ENTRY_SIZE == 128
PK2_FILE_BLOCK_SIZE == 2560
PK2_ROOT_BLOCK == 256
PK2_CURRENT_DIR_IDENT == "."
PK2_PARENT_DIR_IDENT == ".."

(***************************************************************************)
(* Bounds of the model.                                                    *)
(***************************************************************************)
\* the file never grows beyond the header and this many blocks
MaxBlocks == 4
\* the filler files /f0, /f1, ... are created in this order, at most this many
MaxFiller == 21
\* at most this many operations other than the filler creations
MaxOps == 3
\* fuel of the index loader: a file of MaxBlocks blocks has no chain and no
\* directory walk longer than this unless it loops ("Diverges")
MaxLoad == MaxBlocks + 1
\* fuel of the directory walk of the loader: a chain that several directories
\* point at is read once for each of them, so a file without loops can take
\* more reads than it has blocks; the files modelled take at most 6
MaxWalk == 2 * MaxBlocks

FillerNames ==
    << "f0", "f1", "f2", "f3", "f4", "f5", "f6", "f7", "f8", "f9", "f10", "f11",
       "f12", "f13", "f14", "f15", "f16", "f17", "f18", "f19", "f20", "f21",
       "f22", "f23" >>

(***************************************************************************)
(* Entries, blocks, chains.                                                *)
(***************************************************************************)
\* PackEntry::default(): the Empty entry, 128 zero bytes on disk
EmptyEntry == [kind |-> "Empty", name |-> "", pos |-> 0, size |-> 0, next |-> 0]

new_directory(name, children_position, next_block) ==
    [kind |-> "Directory", name |-> name, pos |-> children_position, size |-> 0,
     next |-> next_block]

new_file(name, position, size, next_block) ==
    [kind |-> "File", name |-> name, pos |-> position, size |-> size,
     next |-> next_block]

is_empty(e) == e.kind = "Empty"
is_file(e) == e.kind = "File"
is_dir(e) == e.kind = "Directory"

\* DirectoryEntry::is_normal_link: a directory that is neither `.` nor `..`
is_normal_link(e) ==
    /\ e.kind = "Directory"
    /\ e.name # PK2_CURRENT_DIR_IDENT
    /\ e.name # PK2_PARENT_DIR_IDENT

\* PackEntry::clear: the slot becomes the all-zero Empty entry
clear(e) == EmptyEntry

\* PackBlock::new(offset): 20 Empty entries
EmptyEntries == [i \in 1..PK2_FILE_BLOCK_ENTRY_COUNT |-> EmptyEntry]
PackBlock_new(offset) == [offset |-> offset, entries |-> EmptyEntries]

\* a chain is a non-empty sequence of blocks; entry indices are 0-based
num_entries(chain) == Len(chain) * PK2_FILE_BLOCK_ENTRY_COUNT

get(chain, idx) ==
    chain[(idx \div PK2_FILE_BLOCK_ENTRY_COUNT) + 1]
        .entries[(idx % PK2_FILE_BLOCK_ENTRY_COUNT) + 1]

set_entry(chain, idx, e) ==
    [chain EXCEPT ![(idx \div PK2_FILE_BLOCK_ENTRY_COUNT) + 1]
                      .entries[(idx % PK2_FILE_BLOCK_ENTRY_COUNT) + 1] = e]

chain_index(chain) == chain[1].offset

\* the file offset of entry idx of the chain
file_offset_for_entry(chain, idx) ==
    chain[(idx \div PK2_FILE_BLOCK_ENTRY_COUNT) + 1].offset
        + PK2_FILE_ENTRY_SIZE * (idx % PK2_FILE_BLOCK_ENTRY_COUNT)

\* entries().position(pred): the lowest index whose entry has the name, or -1
position_of_name(chain, name) ==
    LET hits == {i \in 0..(num_entries(chain) - 1) : get(chain, i).name = name}
    IN  IF hits = {} THEN -1 ELSE CHOOSE i \in hits : \A j \in hits : i <= j

\* a scan that returns the highest Empty slot
position_of_empty_highest(chain) ==
    LET hits == {i \in 0..(num_entries(chain) - 1) : is_empty(get(chain, i))}
    IN  IF hits = {} THEN -1 ELSE CHOOSE i \in hits : \A j \in hits : i >= j

\* entries().position(PackEntry::is_empty), or -1
position_of_empty(chain) ==
    LET hits == {i \in 0..(num_entries(chain) - 1) : is_empty(get(chain, i))}
    IN  IF hits = {} THEN -1 ELSE CHOOSE i \in hits : \A j \in hits : i <= j

find_block_chain_index_of(chain, directory) ==
    LET i == position_of_name(chain, directory)
    IN  IF i = -1 THEN [err |-> "NotFound", chain |-> 0]
        ELSE IF ~is_dir(get(chain, i)) THEN [err |-> "ExpectedDirectory", chain |-> 0]
        ELSE [err |-> "", chain |-> get(chain, i).pos]

\* append the block and set the previous last entry's next_block to its offset
push_and_link(chain, offset, block) ==
    LET last_idx == num_entries(chain) - 1
        linked == set_entry(chain, last_idx,
                            [get(chain, last_idx) EXCEPT !.next = offset])
    IN  Append(linked, block)

(***************************************************************************)
(* BlockManager: chains is a function from chain index to chain.           *)
(***************************************************************************)
IsParentDir(component) == component = PK2_PARENT_DIR_IDENT
IsCurDir(component) == component = PK2_CURRENT_DIR_IDENT

\* a fold that stays in the current chain at a `..` component
RECURSIVE resolve_staying_at_parent_dir(_, _, _)
resolve_staying_at_parent_dir(chains, current_chain, path) ==
    IF path = << >> THEN [err |-> "", chain |-> current_chain]
    ELSE IF current_chain \notin DOMAIN chains
         THEN [err |-> "InvalidChainIndex", chain |-> 0]
    ELSE IF IsParentDir(Head(path))
         THEN resolve_staying_at_parent_dir(chains, current_chain, Tail(path))
    ELSE LET r == find_block_chain_index_of(chains[current_chain], Head(path))
         IN  IF r.err # "" THEN r
             ELSE resolve_staying_at_parent_dir(chains, r.chain, Tail(path))

\* try_fold over the components, each looked up by name in the current chain
RECURSIVE resolve_path_to_block_chain_index_at(_, _, _)
resolve_path_to_block_chain_index_at(chains, current_chain, path) ==
    IF path = << >> THEN [err |-> "", chain |-> current_chain]
    ELSE IF current_chain \notin DOMAIN chains
         THEN [err |-> "InvalidChainIndex", chain |-> 0]
    ELSE LET r == find_block_chain_index_of(chains[current_chain], Head(path))
         IN  IF r.err # "" THEN r
             ELSE resolve_path_to_block_chain_index_at(chains, r.chain, Tail(path))

resolve_path_to_entry_and_parent(chains, current_chain, path) ==
    IF path = << >> THEN [err |-> "InvalidPath", chain |-> 0, idx |-> 0]
    ELSE LET parent_r == resolve_path_to_block_chain_index_at(
                             chains, current_chain, SubSeq(path, 1, Len(path) - 1))
         IN  IF parent_r.err # "" THEN [err |-> parent_r.err, chain |-> 0, idx |-> 0]
             ELSE IF parent_r.chain \notin DOMAIN chains
                  THEN [err |-> "Panic", chain |-> 0, idx |-> 0]
             ELSE LET i == position_of_name(chains[parent_r.chain], path[Len(path)])
                  IN  IF i = -1 THEN [err |-> "NotFound", chain |-> 0, idx |-> 0]
                      ELSE [err |-> "", chain |-> parent_r.chain, idx |-> i]

\* walks the components while they exist; returns the chain reached and the
\* components left
RECURSIVE validate_dir_path_until(_, _, _)
validate_dir_path_until(chains, chain, components) ==
    IF components = << >> THEN [err |-> "", chain |-> chain, rest |-> << >>]
    ELSE IF chain \notin DOMAIN chains
         THEN [err |-> "InvalidChainIndex", chain |-> 0, rest |-> << >>]
    ELSE LET r == find_block_chain_index_of(chains[chain], Head(components))
         IN  IF r.err = ""
                 THEN validate_dir_path_until(chains, r.chain, Tail(components))
             ELSE IF r.err = "NotFound"
                 THEN IF IsParentDir(Head(components))
                          THEN [err |-> "InvalidPath", chain |-> 0, rest |-> << >>]
                          ELSE [err |-> "", chain |-> chain, rest |-> components]
             ELSE [err |-> r.err, chain |-> 0, rest |-> << >>]

(***************************************************************************)
(* Pk2 read operations.                                                    *)
(***************************************************************************)
\* an open that hands out the entry whatever its kind
open_entry(chains, path) ==
    resolve_path_to_entry_and_parent(chains, PK2_ROOT_BLOCK, path)

open_file(chains, path) ==
    LET r == resolve_path_to_entry_and_parent(chains, PK2_ROOT_BLOCK, path)
    IN  IF r.err # "" THEN r
        ELSE IF ~is_file(get(chains[r.chain], r.idx))
             THEN [err |-> "ExpectedFile", chain |-> 0, idx |-> 0]
        ELSE r

open_file_mut(chains, path) ==
    LET r == resolve_path_to_entry_and_parent(chains, PK2_ROOT_BLOCK, path)
    IN  IF r.err # "" THEN r
        ELSE IF ~is_file(get(chains[r.chain], r.idx))
             THEN [err |-> "ExpectedFile", chain |-> 0, idx |-> 0]
        ELSE r

\* the root path resolves to the virtual root (chain 0, entry 0)
open_directory(chains, path) ==
    LET r == resolve_path_to_entry_and_parent(chains, PK2_ROOT_BLOCK, path)
    IN  IF r.err = "InvalidPath" THEN [err |-> "", chain |-> 0, idx |-> 0]
        ELSE IF r.err # "" THEN r
        ELSE IF ~is_dir(get(chains[r.chain], r.idx))
             THEN [err |-> "ExpectedDirectory", chain |-> 0, idx |-> 0]
        ELSE r

(***************************************************************************)
(* Directory views (archive/fs.rs) and for_each_file.  A Directory is the  *)
(* pair (chain, entry index) of its entry; the root's is (0, 0), whose     *)
(* entry is fabricated: its children are the root chain.                   *)
(***************************************************************************)
PK2_ROOT_BLOCK_VIRTUAL == 0

\* Directory::name; the root's is never used by for_each_file
Directory_name(chains, dir) ==
    IF dir.chain = PK2_ROOT_BLOCK_VIRTUAL THEN "/"
    ELSE get(chains[dir.chain], dir.idx).name

\* the chain that holds the children of the directory
pos_children(chains, dir) ==
    IF dir.chain = PK2_ROOT_BLOCK_VIRTUAL THEN PK2_ROOT_BLOCK
    ELSE get(chains[dir.chain], dir.idx).pos

\* Directory::entries: the files and the directories other than `.` and `..`
\* of the children chain, in entry order
dir_entries(chains, dir) ==
    LET c == pos_children(chains, dir)
        all == [i \in 1..num_entries(chains[c]) |-> [chain |-> c, idx |-> i - 1]]
        listed(h) == \/ is_file(get(chains[c], h.idx))
                     \/ is_normal_link(get(chains[c], h.idx))
    IN  SelectSeq(all, listed)

\* PathBuf::pop: drops the last component, if any
path_pop(path) ==
    IF path = << >> THEN << >> ELSE SubSeq(path, 1, Len(path) - 1)

\* the path after the `for` over a directory's entries: popped when the
\* directory held files only
path_after_dir(path, files_only) ==
    IF files_only THEN path_pop(path) ELSE path

\* the body of the `while let Some(dir) = stack.pop()` loop, repeated until the
\* stack is empty; returns the callback invocations (path, file) in order
RECURSIVE for_each_loop(_, _, _, _, _)
for_each_loop(chains, stack, path, first_iteration, out) ==
    IF stack = << >> THEN out
    ELSE LET dir == stack[Len(stack)]
             popped == SubSeq(stack, 1, Len(stack) - 1)
             here == IF first_iteration THEN path
                     ELSE Append(path, Directory_name(chains, dir))
             entries == dir_entries(chains, dir)
             IsDirectory(h) == is_dir(get(chains[h.chain], h.idx))
             IsFile(h) == is_file(get(chains[h.chain], h.idx))
             dirs == SelectSeq(entries, IsDirectory)
             files == SelectSeq(entries, IsFile)
             cbs == [k \in 1..Len(files) |->
                        [path |-> Append(here, get(chains[files[k].chain],
                                                   files[k].idx).name),
                         chain |-> files[k].chain, idx |-> files[k].idx]]
         IN  for_each_loop(chains, popped \o dirs,
                           path_after_dir(here, dirs = << >>), FALSE, out \o cbs)

for_each_file(chains, base) ==
    LET d == open_directory(chains, base)
    IN  IF d.err # "" THEN [err |-> d.err, calls |-> << >>]
        ELSE [err |-> "",
              calls |-> for_each_loop(chains, << [chain |-> d.chain, idx |-> d.idx] >>,
                                      << >>, TRUE, << >>)]

(***************************************************************************)
(* Raw I/O.  A write is either a whole block (data = its 20 entries) or one *)
(* entry, at file offset off.  The file is the header followed by whole    *)
(* blocks, kept as a function from block offset to the entries stored      *)
(* there; file_len is its length.                                          *)
(***************************************************************************)
BlockWrite(offset, entries) == [off |-> offset, whole |-> TRUE, data |-> entries]
EntryWrite(offset, entry) == [off |-> offset, whole |-> FALSE, data |-> entry]

\* the block that holds file offset `offset`, and the slot of the offset in it
BlockOf(offset) == offset - ((offset - PK2_ROOT_BLOCK) % PK2_FILE_BLOCK_SIZE)
SlotOf(offset) == ((offset - PK2_ROOT_BLOCK) % PK2_FILE_BLOCK_SIZE) \div PK2_FILE_ENTRY_SIZE

\* the entry stored at a file offset
entry_at(blocks, offset) == blocks[BlockOf(offset)][SlotOf(offset) + 1]

\* write_chain_entry: the entry is written at the file offset the chain gives
write_chain_entry(chain, idx) ==
    EntryWrite(file_offset_for_entry(chain, idx), get(chain, idx))

apply_write(blocks, w) ==
    IF w.whole
        THEN [o \in DOMAIN blocks \cup {w.off} |->
                 IF o = w.off THEN w.data ELSE blocks[o]]
        ELSE [blocks EXCEPT ![BlockOf(w.off)][SlotOf(w.off) + 1] = w.data]

\* an allocation that does not move the end of the file
allocate_empty_block_in_place(file_len) ==
    [offset |-> file_len,
     block |-> PackBlock_new(file_len),
     writes |-> << BlockWrite(file_len, EmptyEntries) >>,
     file_len |-> file_len]

\* allocate_empty_block: a zeroed block written at end-of-file
allocate_empty_block(file_len) ==
    [offset |-> file_len,
     block |-> PackBlock_new(file_len),
     writes |-> << BlockWrite(file_len, EmptyEntries) >>,
     file_len |-> file_len + PK2_FILE_BLOCK_SIZE]

\* allocate_new_block_chain: the new chain's block, then the parent's entry
allocate_new_block_chain(file_len, parent_chain, dir_name, entry_idx_in_parent) ==
    LET a == allocate_empty_block(file_len)
        entries == [a.block.entries EXCEPT
                       ![1] = new_directory(PK2_CURRENT_DIR_IDENT, a.offset, 0),
                       ![2] = new_directory(PK2_PARENT_DIR_IDENT,
                                            chain_index(parent_chain), 0)]
        parent == set_entry(parent_chain, entry_idx_in_parent,
                            new_directory(dir_name, a.offset, 0))
    IN  [chain |-> << [offset |-> a.offset, entries |-> entries] >>,
         parent |-> parent,
         writes |-> a.writes \o << BlockWrite(a.offset, entries),
                                   write_chain_entry(parent, entry_idx_in_parent) >>,
         file_len |-> a.file_len]

(***************************************************************************)
(* Pk2 mutations, as functions of the BlockManager and the file length.    *)
(* Each returns the BlockManager it leaves, the writes it issued in order, *)
(* and its result.                                                         *)
(***************************************************************************)
Outcome(err, chains, file_len, writes, chain, idx) ==
    [err |-> err, chains |-> chains, file_len |-> file_len, writes |-> writes,
     chain |-> chain, idx |-> idx]

\* a create_entry_at that writes the link to the new block before the block
find_or_create_slot_link_first(current_chain, file_len) ==
    LET empty_pos == position_of_empty(current_chain)
    IN  IF empty_pos # -1
            THEN [idx |-> empty_pos, chain |-> current_chain, writes |-> << >>,
                  file_len |-> file_len]
            ELSE LET a == allocate_empty_block(file_len)
                     chain_entry_idx == num_entries(current_chain)
                     grown == push_and_link(current_chain, a.offset, a.block)
                 IN  [idx |-> chain_entry_idx, chain |-> grown,
                      writes |-> << write_chain_entry(grown, chain_entry_idx - 1) >>
                                 \o a.writes,
                      file_len |-> a.file_len]

\* lines 282-301: the slot for a new entry of the chain, growing it when full
find_or_create_slot(current_chain, file_len) ==
    LET empty_pos == position_of_empty(current_chain)
    IN  IF empty_pos # -1
            THEN [idx |-> empty_pos, chain |-> current_chain, writes |-> << >>,
                  file_len |-> file_len]
            ELSE LET a == allocate_empty_block(file_len)
                     chain_entry_idx == num_entries(current_chain)
                     grown == push_and_link(current_chain, a.offset, a.block)
                 IN  [idx |-> chain_entry_idx, chain |-> grown,
                      writes |-> a.writes \o
                                 << write_chain_entry(grown, chain_entry_idx - 1) >>,
                      file_len |-> a.file_len]

\* a create_entry_at that gives every new directory the root chain as parent
create_directory_in_root(chains, current_chain_index, s, dir_name) ==
    LET n == allocate_new_block_chain(s.file_len, chains[PK2_ROOT_BLOCK], dir_name,
                                      s.idx)
        new_index == chain_index(n.chain)
    IN  [chains |-> [c \in DOMAIN chains \cup {new_index} |->
                        IF c = new_index THEN n.chain
                        ELSE IF c = current_chain_index THEN n.parent
                        ELSE chains[c]],
         file_len |-> n.file_len,
         writes |-> s.writes \o n.writes,
         index |-> new_index]

\* lines 304-314: the component is not the last one, so it is a new directory:
\* its chain is allocated with the current chain as parent and inserted
create_directory(chains, current_chain_index, s, dir_name) ==
    LET n == allocate_new_block_chain(s.file_len, s.chain, dir_name, s.idx)
        new_index == chain_index(n.chain)
    IN  [chains |-> [c \in DOMAIN chains \cup {new_index} |->
                        IF c = new_index THEN n.chain
                        ELSE IF c = current_chain_index THEN n.parent
                        ELSE chains[c]],
         file_len |-> n.file_len,
         writes |-> s.writes \o n.writes,
         index |-> new_index]

\* the loop of create_entry_at over the components left after the fork point
RECURSIVE create_walk(_, _, _, _, _)
create_walk(chains, file_len, writes, current_chain_index, components) ==
    IF components = << >>
        THEN Outcome("AlreadyExists", chains, file_len, writes, 0, 0)
    ELSE IF IsCurDir(Head(components))
        THEN create_walk(chains, file_len, writes, current_chain_index,
                         Tail(components))
    ELSE IF current_chain_index \notin DOMAIN chains
        THEN Outcome("InvalidChainIndex", chains, file_len, writes, 0, 0)
    ELSE IF IsParentDir(Head(components))
        THEN LET r == find_block_chain_index_of(chains[current_chain_index],
                                                PK2_PARENT_DIR_IDENT)
             IN  IF r.err # ""
                     THEN Outcome(r.err, chains, file_len, writes, 0, 0)
                     ELSE create_walk(chains, file_len, writes, r.chain,
                                      Tail(components))
    ELSE LET s == find_or_create_slot(chains[current_chain_index], file_len)
         IN  IF Tail(components) # << >>
                 THEN LET n == create_directory(chains, current_chain_index, s,
                                                Head(components))
                      IN  create_walk(n.chains, n.file_len, writes \o n.writes,
                                      n.index, Tail(components))
                 ELSE Outcome("",
                              [chains EXCEPT ![current_chain_index] = s.chain],
                              s.file_len, writes \o s.writes,
                              chain_index(s.chain), s.idx)

create_entry_at(chains, file_len, chain, path) ==
    LET v == validate_dir_path_until(chains, chain, path)
    IN  IF v.err # "" THEN Outcome(v.err, chains, file_len, << >>, 0, 0)
        ELSE create_walk(chains, file_len, << >>, v.chain, v.rest)

\* a create_file that names the file after the first component of the path
file_name_first(path) ==
    IF path = << >> \/ IsParentDir(path[Len(path)]) \/ IsCurDir(path[Len(path)])
        THEN "" ELSE path[1]

\* Path::file_name: None when the path ends in `..`
file_name(path) ==
    IF path = << >> \/ IsParentDir(path[Len(path)]) \/ IsCurDir(path[Len(path)])
        THEN "" ELSE path[Len(path)]

\* the File entry is stored in the BlockManager only; no write is issued for it
create_file(chains, file_len, path) ==
    IF file_name(path) = ""
        THEN Outcome("InvalidPath", chains, file_len, << >>, 0, 0)
    ELSE LET r == create_entry_at(chains, file_len, PK2_ROOT_BLOCK, path)
         IN  IF r.err # "" THEN r
             ELSE LET entry == get(r.chains[r.chain], r.idx)
                  IN  [r EXCEPT !.chains[r.chain] =
                          set_entry(r.chains[r.chain], r.idx,
                                    new_file(file_name(path), 0, 0, entry.next))]

\* a delete that clears the entry whatever its kind
delete_entry(chains, file_len, path) ==
    LET r == resolve_path_to_entry_and_parent(chains, PK2_ROOT_BLOCK, path)
    IN  IF r.err # "" THEN Outcome(r.err, chains, file_len, << >>, 0, 0)
        ELSE LET cleared == set_entry(chains[r.chain], r.idx,
                                      clear(get(chains[r.chain], r.idx)))
             IN  Outcome("", [chains EXCEPT ![r.chain] = cleared], file_len,
                         << write_chain_entry(cleared, r.idx) >>, r.chain, r.idx)

delete_file(chains, file_len, path) ==
    LET r == resolve_path_to_entry_and_parent(chains, PK2_ROOT_BLOCK, path)
    IN  IF r.err # "" THEN Outcome(r.err, chains, file_len, << >>, 0, 0)
        ELSE IF ~is_file(get(chains[r.chain], r.idx))
            THEN Outcome("ExpectedFile", chains, file_len, << >>, 0, 0)
        ELSE LET cleared == set_entry(chains[r.chain], r.idx,
                                      clear(get(chains[r.chain], r.idx)))
             IN  Outcome("", [chains EXCEPT ![r.chain] = cleared], file_len,
                         << write_chain_entry(cleared, r.idx) >>, r.chain, r.idx)

(***************************************************************************)
(* BlockManager::new: the index is read from the file, from the root.      *)
(***************************************************************************)
\* read_block_at fails with Io when the offset lies beyond the end of file
RECURSIVE read_chain_from_file_at(_, _, _, _)
read_chain_from_file_at(blocks, offset, read, fuel) ==
    IF offset \notin DOMAIN blocks THEN [err |-> "Io", chain |-> << >>]
    ELSE IF fuel = 0 THEN [err |-> "Diverges", chain |-> << >>]
    ELSE LET block == [offset |-> offset, entries |-> blocks[offset]]
             nc == block.entries[PK2_FILE_BLOCK_ENTRY_COUNT].next
         IN  IF nc # 0
                 THEN read_chain_from_file_at(blocks, nc, Append(read, block), fuel - 1)
                 ELSE [err |-> "", chain |-> Append(read, block)]

\* the children_position of the normal-link directories of a chain, in entry order
RECURSIVE folder_offsets(_, _)
folder_offsets(chain, idx) ==
    IF idx >= num_entries(chain) THEN << >>
    ELSE IF is_normal_link(get(chain, idx))
        THEN << get(chain, idx).pos >> \o folder_offsets(chain, idx + 1)
        ELSE folder_offsets(chain, idx + 1)

RECURSIVE load_chains(_, _, _, _)
load_chains(blocks, offsets, chains, fuel) ==
    IF offsets = << >> THEN [err |-> "", chains |-> chains]
    ELSE IF fuel = 0 THEN [err |-> "Diverges", chains |-> chains]
    ELSE LET offset == offsets[Len(offsets)]
             r == read_chain_from_file_at(blocks, offset, << >>, MaxLoad)
         IN  IF r.err # "" THEN [err |-> r.err, chains |-> chains]
             ELSE load_chains(
                      blocks,
                      SubSeq(offsets, 1, Len(offsets) - 1) \o folder_offsets(r.chain, 0),
                      [c \in DOMAIN chains \cup {offset} |->
                          IF c = offset THEN r.chain ELSE chains[c]],
                      fuel - 1)

\* the offsets BlockManager::new pops off its stack and reads a chain at, in order
RECURSIVE load_reads(_, _, _)
load_reads(blocks, offsets, fuel) ==
    IF offsets = << >> \/ fuel = 0 THEN << >>
    ELSE LET offset == offsets[Len(offsets)]
             r == read_chain_from_file_at(blocks, offset, << >>, MaxLoad)
         IN  IF r.err # "" THEN << offset >>
             ELSE << offset >> \o
                  load_reads(blocks,
                             SubSeq(offsets, 1, Len(offsets) - 1)
                                 \o folder_offsets(r.chain, 0),
                             fuel - 1)

NoChains == [c \in {} |-> << >>]

BlockManager_new(blocks) == load_chains(blocks, << PK2_ROOT_BLOCK >>, NoChains, MaxWalk)

(***************************************************************************)
(* FILETIME (filetime.rs).  A u32, u64 or u128 is the sequence of its 2, 4  *)
(* or 8 digits in base 2^16, lowest first, so that the arithmetic is that  *)
(* of the machine words.  A SystemTime is the Duration since the Unix      *)
(* epoch: whole seconds (a u64) and nanoseconds below 10^9.                *)
(***************************************************************************)
Radix == 2^16

\* a number below 2^31 as a word of k digits
word(n, k) ==
    [i \in 1..k |-> IF i = 1 THEN n % Radix
                    ELSE IF i = 2 THEN n \div Radix ELSE 0]

\* `as u128` and `as u64`
widen(a, k) == [i \in 1..k |-> IF i <= Len(a) THEN a[i] ELSE 0]
truncate(a, k) == SubSeq(a, 1, k)

RECURSIVE add_carry(_, _, _)
add_carry(a, b, i) ==
    IF i = 1 THEN 0 ELSE (a[i - 1] + b[i - 1] + add_carry(a, b, i - 1)) \div Radix

\* a + b in the width of a: the wrapped sum and whether it overflowed
add(a, b) ==
    [value |-> [i \in 1..Len(a) |-> (a[i] + b[i] + add_carry(a, b, i)) % Radix],
     overflow |-> add_carry(a, b, Len(a) + 1) # 0]

RECURSIVE sub_borrow(_, _, _)
sub_borrow(a, b, i) ==
    IF i = 1 THEN 0
    ELSE IF a[i - 1] - b[i - 1] - sub_borrow(a, b, i - 1) < 0 THEN 1 ELSE 0

\* a - b: the wrapped difference and whether a < b
sub(a, b) ==
    [value |-> [i \in 1..Len(a) |-> (a[i] - b[i] - sub_borrow(a, b, i)) % Radix],
     overflow |-> sub_borrow(a, b, Len(a) + 1) # 0]

RECURSIVE mul_carry(_, _, _)
mul_carry(a, m, i) ==
    IF i = 1 THEN 0 ELSE (a[i - 1] * m + mul_carry(a, m, i - 1)) \div Radix

\* a * m for a small m, in the width of a
mul(a, m) ==
    [value |-> [i \in 1..Len(a) |-> (a[i] * m + mul_carry(a, m, i)) % Radix],
     overflow |-> mul_carry(a, m, Len(a) + 1) # 0]

\* the remainder of the digits from the highest down to digit i, divided by m
RECURSIVE div_rem(_, _, _)
div_rem(a, m, i) ==
    IF i > Len(a) THEN 0 ELSE (div_rem(a, m, i + 1) * Radix + a[i]) % m

\* a / m and a % m for a small m
div(a, m) ==
    [quot |-> [i \in 1..Len(a) |-> (div_rem(a, m, i + 1) * Radix + a[i]) \div m],
     rem |-> div_rem(a, m, 1)]

\* FILETIME::MS_EPOCH = 116444736000000000 = 0x019DB1DED53E8000
MS_EPOCH == << 32768, 54590, 45534, 413 >>

\* Duration::as_nanos: secs * 10^9 + nanos, a u128
as_nanos(d) ==
    add(mul(mul(mul(widen(d.secs, 8), 1000).value, 1000).value, 1000).value,
        word(d.nanos, 8)).value

\* Duration::from_nanos(n) for a u64 n: n / 10^9 seconds, n % 10^9 nanoseconds
from_nanos(n) ==
    LET q1 == div(n, 1000)
        q2 == div(q1.quot, 1000)
        q3 == div(q2.quot, 1000)
    IN  [secs |-> q3.quot, nanos |-> q3.rem * 1000000 + q2.rem * 1000 + q1.rem]

Panic == [tag |-> "panic"]
None == [tag |-> "None"]
Some(v) == [tag |-> "Some", value |-> v]

FILETIME(ftime) ==
    [dwLowDateTime |-> SubSeq(ftime, 1, 2), dwHighDateTime |-> SubSeq(ftime, 3, 4)]

\* impl From<SystemTime> for FILETIME, for a time at or after the Unix epoch:
\* the results the builds can give (an overflowing `+` panics where overflow
\* checks are on and wraps where they are off)
from_systime(systime) ==
    LET ticks == truncate(div(as_nanos(systime), 100).quot, 4)
        ftime == add(ticks, MS_EPOCH)
    IN  IF ftime.overflow THEN { Panic, Some(FILETIME(ftime.value)) }
        ELSE { Some(FILETIME(ftime.value)) }

\* FILETIME::into_systime: the results the builds can give
into_systime(ft) ==
    LET ftime == ft.dwLowDateTime \o ft.dwHighDateTime
        since == sub(ftime, MS_EPOCH)
        nanos == mul(since.value, 100)
    IN  IF since.overflow THEN { None }
        ELSE IF nanos.overflow THEN { Panic, Some(from_nanos(nanos.value)) }
        ELSE { Some(from_nanos(nanos.value)) }

(***************************************************************************)
(* Header and cipher.  A key is a string.  What a cipher encrypts a        *)
(* plaintext to is decided by its key schedule and the plaintext.          *)
(***************************************************************************)
PK2_CHECKSUM == "Joymax"

\* the keys given to create_new and open: the empty key, two keys, a longer
\* key with the key schedule of the first (Blowfish cycles the bytes of the key
\* over its P-array), and a key longer than Blowfish accepts
Keys == { "", "K1", "K2", "K1K1", "TooLong" }

key_schedule(k) == IF k = "K1K1" THEN "K1" ELSE k

NoBlowfish == [some |-> FALSE, key |-> ""]

\* Blowfish::new: InvalidKey when the length of the key is out of range
Blowfish_new(k) ==
    IF k \in { "", "TooLong" } THEN [err |-> "InvalidKey", bf |-> NoBlowfish]
    ELSE [err |-> "", bf |-> [some |-> TRUE, key |-> k]]

\* Blowfish::encrypt of the checksum plaintext
encrypt(bf, plaintext) == << key_schedule(bf.key), plaintext >>

\* PackHeader::default(): not encrypted
PackHeader_default == [encrypted |-> FALSE, verify |-> << >>]

\* PackHeader::new_encrypted(bf): the checksum field is the encrypted plaintext
new_encrypted(bf) == [encrypted |-> TRUE, verify |-> encrypt(bf, PK2_CHECKSUM)]

\* PackHeader::verify
verify(h, checksum) == IF h.verify = checksum THEN "" ELSE "InvalidKey"

\* an open that builds the cipher and never compares the checksum
open_in_impl_unverified(h, file_blocks, k) ==
    IF h.encrypted
        THEN LET b == Blowfish_new(k)
             IN  IF b.err # ""
                     THEN [err |-> b.err, chains |-> NoChains, bf |-> NoBlowfish]
                 ELSE LET m == BlockManager_new(file_blocks)
                      IN  [err |-> m.err, chains |-> m.chains, bf |-> b.bf]
        ELSE LET m == BlockManager_new(file_blocks)
             IN  [err |-> m.err, chains |-> m.chains, bf |-> NoBlowfish]

\* Pk2::_open_in_impl: the key is used, and checked, only when the header says
\* the archive is encrypted
open_in_impl(h, file_blocks, k) ==
    IF h.encrypted
        THEN LET b == Blowfish_new(k)
             IN  IF b.err # ""
                     THEN [err |-> b.err, chains |-> NoChains, bf |-> NoBlowfish]
                 ELSE IF verify(h, encrypt(b.bf, PK2_CHECKSUM)) # ""
                     THEN [err |-> "InvalidKey", chains |-> NoChains,
                           bf |-> NoBlowfish]
                 ELSE LET m == BlockManager_new(file_blocks)
                      IN  [err |-> m.err, chains |-> m.chains, bf |-> b.bf]
        ELSE LET m == BlockManager_new(file_blocks)
             IN  [err |-> m.err, chains |-> m.chains, bf |-> NoBlowfish]

(***************************************************************************)
(* The archive: the BlockManager of the open Pk2, the index blocks of the  *)
(* file, and the writes of the running mutation not yet issued.            *)
(***************************************************************************)
VARIABLES
    chains,      \* block_manager.chains of the open archive
    blocks,      \* the file: block offset -> the 20 entries stored there
    file_len,    \* length of the file
    pending,     \* writes of the running mutation still to be issued
    opened,      \* FALSE once re-opening the file failed
    before,      \* the BlockManager and the file when the last operation began
    last,        \* the last operation: operation, path or key, result
    fillers,     \* number of filler files created so far
    ops,         \* number of other operations so far
    calls,       \* the callback invocations of the last for_each_file, in order
    header,      \* the header of the file: the encrypted flag and the checksum
    blowfish,    \* Pk2.blowfish of the open archive
    key,         \* the key the file was created with
    time         \* a SystemTime, the FILETIME made from it and the time read back

vars ==
    << chains, blocks, file_len, pending, opened, before, last, fillers, ops, calls,
       header, blowfish, key, time >>

NoTime == [step |-> "none", t |-> [secs |-> word(0, 4), nanos |-> 0],
           ft |-> None, back |-> None]

\* paths given to create_file
CreatePaths ==
    { << "a" >>, << "d", "a" >>, << "d", "e", "a" >>, << "n", "..", "a" >> }

\* paths given to delete_file
DeletePaths ==
    { << "a" >>, << "d" >>, << "d", "a" >>, << "f18" >> }

NoOp ==
    [op |-> "create_new", path |-> << >>, key |-> "", err |-> "", chain |-> 0,
     idx |-> 0]

\* a root block whose `.` points at the virtual root, offset 0
RootEntriesVirtual ==
    [EmptyEntries EXCEPT ![1] = new_directory(PK2_CURRENT_DIR_IDENT, 0, 0)]

\* Pk2::_create_impl: the header, then the root block with `.` as entry 0,
\* then the BlockManager read back from the file
RootEntries ==
    [EmptyEntries EXCEPT ![1] = new_directory(PK2_CURRENT_DIR_IDENT, PK2_ROOT_BLOCK, 0)]

create_impl_blocks == apply_write(NoChains, BlockWrite(PK2_ROOT_BLOCK, RootEntries))

Init ==
    /\ blocks = create_impl_blocks
    /\ file_len = PK2_ROOT_BLOCK + PK2_FILE_BLOCK_SIZE
    /\ chains = BlockManager_new(create_impl_blocks).chains
    /\ pending = << >>
    /\ opened = TRUE
    /\ before = [chains |-> chains, blocks |-> blocks, file_len |-> file_len]
    /\ last = NoOp
    /\ fillers = 0
    /\ ops = 0
    /\ calls = << >>
    /\ header = PackHeader_default
    /\ blowfish = NoBlowfish
    /\ key = ""
    /\ time = NoTime

Idle == opened /\ pending = << >>

FitsFile(r) == r.file_len <= PK2_ROOT_BLOCK + MaxBlocks * PK2_FILE_BLOCK_SIZE

\* a mutation begins: the BlockManager is updated, its writes are queued
Begin(op, path, r) ==
    /\ FitsFile(r)
    /\ chains' = r.chains
    /\ file_len' = file_len
    /\ pending' = r.writes
    /\ before' = [chains |-> chains, blocks |-> blocks, file_len |-> file_len]
    /\ last' = [op |-> op, path |-> path, key |-> "", err |-> r.err,
                chain |-> r.chain, idx |-> r.idx]
    /\ calls' = << >>
    /\ UNCHANGED << time, blocks, opened, header, blowfish, key >>

\* the fillers /f0, /f1, ... are created first, in this order
CreateFiller ==
    /\ Idle
    /\ ops = 0
    /\ fillers < MaxFiller
    /\ Begin("create_file", << FillerNames[fillers + 1] >>,
             create_file(chains, file_len, << FillerNames[fillers + 1] >>))
    /\ fillers' = fillers + 1
    /\ UNCHANGED ops

CreateFile ==
    /\ Idle
    /\ ops < MaxOps
    /\ \E path \in CreatePaths :
           Begin("create_file", path, create_file(chains, file_len, path))
    /\ ops' = ops + 1
    /\ UNCHANGED fillers

DeleteFile ==
    /\ Idle
    /\ ops < MaxOps
    /\ \E path \in DeletePaths :
           Begin("delete_file", path, delete_file(chains, file_len, path))
    /\ ops' = ops + 1
    /\ UNCHANGED fillers

\* the next write of the running mutation reaches the file
Write ==
    /\ opened
    /\ pending # << >>
    /\ blocks' = apply_write(blocks, Head(pending))
    /\ file_len' = IF Head(pending).whole
                          /\ Head(pending).off + PK2_FILE_BLOCK_SIZE > file_len
                       THEN Head(pending).off + PK2_FILE_BLOCK_SIZE ELSE file_len
    /\ pending' = Tail(pending)
    /\ UNCHANGED << time, chains, opened, before, last, fillers, ops, calls, header,
                    blowfish, key >>

\* the running mutation is interrupted before its next write and the file is
\* opened again
Interrupt ==
    /\ opened
    /\ pending # << >>
    /\ LET r == BlockManager_new(blocks)
       IN  /\ opened' = (r.err = "")
           /\ chains' = r.chains
    /\ pending' = << >>
    /\ last' = [last EXCEPT !.op = "interrupted_" \o last.op]
    /\ ops' = ops + 1
    /\ UNCHANGED << time, blocks, file_len, before, fillers, calls, header, blowfish, key >>

\* the archive is closed and opened again
Reopen ==
    /\ Idle
    /\ ops < MaxOps
    /\ LET r == BlockManager_new(blocks)
       IN  /\ opened' = (r.err = "")
           /\ chains' = r.chains
    /\ before' = [chains |-> chains, blocks |-> blocks, file_len |-> file_len]
    /\ last' = [NoOp EXCEPT !.op = "open"]
    /\ ops' = ops + 1
    /\ UNCHANGED << time, blocks, file_len, pending, fillers, calls, header, blowfish,
                    key >>

Next ==
    \/ CreateFiller
    \/ CreateFile
    \/ DeleteFile
    \/ Write
    \/ Interrupt
    \/ Reopen

Spec == Init /\ [][Next]_vars

(***************************************************************************)
(* The archive under path lookups: a tree is built with create_file and    *)
(* delete_file, and open_file, open_directory and for_each_file are called *)
(* between the mutations.                                                  *)
(***************************************************************************)
\* at most this many mutations of the tree
MaxTreeOps == 4

\* paths given to create_file
TreePaths ==
    { << "a" >>, << "d", "a" >>, << "n", "e", "a" >>,
      << "..", "a" >>, << "x", "..", "..", "a" >> }

\* paths whose `..` leaves the root
EscapePaths ==
    { << ".." >>, << "..", "a" >>, << "d", "..", "..", "a" >> }

\* paths to files and directories, and paths that go on below a file
KindPaths ==
    { << "a" >>, << "d" >>, << "d", "a" >>, << "n", "e" >>, << "a", "b" >>,
      << "d", "a", "b" >>, << "d", "a", "..", "a" >> }

\* paths given to delete_file
TreeDeletePaths ==
    { << "d", "a" >>, << "d" >>, << "n", "e" >>, << "a", "b" >>, << "d", "a", "b" >> }
        \cup EscapePaths

\* paths given to open_file and open_file_mut
OpenFilePaths == KindPaths \cup EscapePaths

\* paths of directories that go up with `..` and stay inside the archive
ParentPaths ==
    { << "d", ".." >>, << "n", "e", ".." >>, << "n", "e", "..", ".." >>,
      << "n", "..", "d" >>, << "d", "..", "n", "e" >>,
      << "n", "e", "..", "e" >> }

\* paths given to open_directory
OpenDirectoryPaths ==
    { << >> } \cup KindPaths \cup ParentPaths \cup EscapePaths

\* paths given to for_each_file
BasePaths == { << >>, << "d" >>, << "n" >> }

TreeCreate ==
    /\ Idle
    /\ ops < MaxTreeOps
    /\ \E path \in TreePaths :
           Begin("create_file", path, create_file(chains, file_len, path))
    /\ ops' = ops + 1
    /\ UNCHANGED fillers

TreeDelete ==
    /\ Idle
    /\ ops < MaxTreeOps
    /\ \E path \in TreeDeletePaths :
           Begin("delete_file", path, delete_file(chains, file_len, path))
    /\ ops' = ops + 1
    /\ UNCHANGED fillers

\* a lookup: the archive is left as it is, the result is recorded
Lookup(op, path, r, cbs) ==
    /\ Idle
    /\ last' = [op |-> op, path |-> path, key |-> "", err |-> r.err,
                chain |-> r.chain, idx |-> r.idx]
    /\ calls' = cbs
    /\ before' = [chains |-> chains, blocks |-> blocks, file_len |-> file_len]
    /\ UNCHANGED << time, chains, blocks, file_len, pending, opened, fillers, ops, header,
                    blowfish, key >>

OpenFile ==
    \E path \in OpenFilePaths :
        Lookup("open_file", path, open_file(chains, path), << >>)

OpenFileMut ==
    \E path \in OpenFilePaths :
        Lookup("open_file_mut", path, open_file_mut(chains, path), << >>)

OpenDirectory ==
    \E path \in OpenDirectoryPaths :
        Lookup("open_directory", path, open_directory(chains, path), << >>)

ForEachFile ==
    \E base \in BasePaths :
        LET r == for_each_file(chains, base)
        IN  Lookup("for_each_file", base,
                   [err |-> r.err, chain |-> 0, idx |-> 0], r.calls)

PathsNext ==
    \/ TreeCreate
    \/ TreeDelete
    \/ Write
    \/ OpenFile
    \/ OpenFileMut
    \/ OpenDirectory
    \/ ForEachFile

SpecPaths == Init /\ [][PathsNext]_vars

(***************************************************************************)
(* Opening files: a file holds the header create_new wrote for the empty   *)
(* key and three index blocks of any content; archives are created in it   *)
(* and opened from it with any key.                                        *)
(***************************************************************************)
Block1 == PK2_ROOT_BLOCK + PK2_FILE_BLOCK_SIZE
Block2 == PK2_ROOT_BLOCK + 2 * PK2_FILE_BLOCK_SIZE

\* the entries of a block: its first two entries, a directory `name` in slot 2
\* when pos is not 0, and a last entry with next_block `next` when next is not 0
CraftedEntries(first, second, name, pos, next) ==
    [i \in 1..PK2_FILE_BLOCK_ENTRY_COUNT |->
        IF i = 1 THEN first
        ELSE IF i = 2 THEN second
        ELSE IF i = 3 /\ pos # 0 THEN new_directory(name, pos, 0)
        ELSE IF i = PK2_FILE_BLOCK_ENTRY_COUNT /\ next # 0
            THEN new_file("z", 0, 0, next)
        ELSE EmptyEntry]

\* the file contents: the root block with directories d and n, a block with a
\* directory e, and a block with no entries but `.` and `..`
Images ==
    { [o \in { PK2_ROOT_BLOCK, Block1, Block2 } |->
          IF o = PK2_ROOT_BLOCK
              THEN CraftedEntries(
                       new_directory(PK2_CURRENT_DIR_IDENT, PK2_ROOT_BLOCK, 0),
                       IF dpos # 0 THEN new_directory("d", dpos, 0) ELSE EmptyEntry,
                       "n", npos, rnext)
          ELSE IF o = Block1
              THEN CraftedEntries(
                       new_directory(PK2_CURRENT_DIR_IDENT, Block1, 0),
                       new_directory(PK2_PARENT_DIR_IDENT, PK2_ROOT_BLOCK, 0),
                       "e", epos, b1next)
          ELSE CraftedEntries(
                   new_directory(PK2_CURRENT_DIR_IDENT, Block2, 0),
                   new_directory(PK2_PARENT_DIR_IDENT, PK2_ROOT_BLOCK, 0),
                   "", 0, 0)] :
      dpos \in { 0, Block1 }, npos \in { 0, Block1, Block2 },
      rnext \in { 0, PK2_ROOT_BLOCK, Block1 },
      epos \in { 0, Block2, PK2_ROOT_BLOCK },
      b1next \in { 0, Block1, Block2 } }

\* the header create_new writes for a key
header_for(k) ==
    IF k = "" THEN PackHeader_default ELSE new_encrypted(Blowfish_new(k).bf)

\* Pk2::_create_impl: the cipher of the key, the header and the root block
\* written over the start of the file, then the BlockManager read back
create_impl(file_blocks, k) ==
    IF k # "" /\ Blowfish_new(k).err # ""
        THEN [err |-> Blowfish_new(k).err, header |-> header, blocks |-> file_blocks,
              chains |-> NoChains, bf |-> NoBlowfish]
    ELSE LET written == apply_write(file_blocks,
                                    BlockWrite(PK2_ROOT_BLOCK, RootEntries))
             m == BlockManager_new(written)
         IN  [err |-> m.err, header |-> header_for(k), blocks |-> written,
              chains |-> m.chains,
              bf |-> IF k = "" THEN NoBlowfish ELSE Blowfish_new(k).bf]

InitOpen ==
    /\ blocks \in Images
    /\ file_len = PK2_ROOT_BLOCK + 3 * PK2_FILE_BLOCK_SIZE
    /\ key = ""
    /\ header = header_for(key)
    /\ chains = NoChains
    /\ blowfish = NoBlowfish
    /\ pending = << >>
    /\ opened = FALSE
    /\ before = [chains |-> chains, blocks |-> blocks, file_len |-> file_len]
    /\ last = [NoOp EXCEPT !.op = "none"]
    /\ fillers = 0
    /\ ops = 0
    /\ calls = << >>
    /\ time = NoTime

\* create_new_in(file, k)
CreateNewIn ==
    \E k \in Keys :
        LET r == create_impl(blocks, k)
        IN  /\ header' = r.header
            /\ blocks' = r.blocks
            /\ chains' = r.chains
            /\ blowfish' = r.bf
            /\ opened' = (r.err = "")
            /\ key' = IF r.err = "" THEN k ELSE key
            /\ last' = [NoOp EXCEPT !.op = "create_new", !.key = k, !.err = r.err]
            /\ before' = [chains |-> chains, blocks |-> blocks, file_len |-> file_len]
            /\ UNCHANGED << time, file_len, pending, fillers, ops, calls >>

\* open_in(file, k)
Open ==
    \E k \in Keys :
        LET r == open_in_impl(header, blocks, k)
        IN  /\ chains' = r.chains
            /\ blowfish' = r.bf
            /\ opened' = (r.err = "")
            /\ last' = [NoOp EXCEPT !.op = "open", !.key = k, !.err = r.err]
            /\ before' = [chains |-> chains, blocks |-> blocks, file_len |-> file_len]
            /\ UNCHANGED << time, blocks, file_len, pending, fillers, ops, calls, header,
                            key >>

OpenNext ==
    \/ CreateNewIn
    \/ Open

SpecOpen == InitOpen /\ [][OpenNext]_vars

(***************************************************************************)
(* Converting a SystemTime to a FILETIME and back: the times converted are *)
(* whole seconds around the limits of the u64 arithmetic, each with        *)
(* nanoseconds on and off a multiple of 100.                               *)
(***************************************************************************)
\* seconds since 1970: 0, 1, 1700000000, 18446744073 and 18446744074
\* (2^64 ns lie between them), 1833029933770 and 1833029933771 (2^64 - MS_EPOCH
\* intervals lie between them), 1844674407370 and 1844674407371 (2^64 intervals)
Seconds ==
    { << 0, 0, 0, 0 >>, << 1, 0, 0, 0 >>, << 61696, 25939, 0, 0 >>,
      << 64009, 19330, 4, 0 >>, << 64010, 19330, 4, 0 >>,
      << 6858, 51481, 426, 0 >>, << 6859, 51481, 426, 0 >>,
      << 43978, 32553, 429, 0 >>, << 43979, 32553, 429, 0 >> }

Nanoseconds ==
    { 0, 1, 99, 100, 101, 500000000, 709551600, 709551700, 999999900, 999999999 }

archive_vars ==
    << chains, blocks, file_len, pending, opened, before, last, fillers, ops, calls,
       header, blowfish, key >>

InitTime ==
    /\ blocks = create_impl_blocks
    /\ file_len = PK2_ROOT_BLOCK + PK2_FILE_BLOCK_SIZE
    /\ chains = BlockManager_new(create_impl_blocks).chains
    /\ pending = << >>
    /\ opened = TRUE
    /\ before = [chains |-> chains, blocks |-> blocks, file_len |-> file_len]
    /\ last = NoOp
    /\ fillers = 0
    /\ ops = 0
    /\ calls = << >>
    /\ header = PackHeader_default
    /\ blowfish = NoBlowfish
    /\ key = ""
    /\ \E secs \in Seconds, nanos \in Nanoseconds :
           time = [NoTime EXCEPT !.step = "systime",
                                 !.t = [secs |-> secs, nanos |-> nanos]]

\* FILETIME::from(t)
FromSystemTime ==
    /\ time.step = "systime"
    /\ \E ft \in from_systime(time.t) :
           time' = [time EXCEPT !.step = "filetime", !.ft = ft]
    /\ UNCHANGED archive_vars

\* ft.into_systime()
IntoSystime ==
    /\ time.step = "filetime"
    /\ time.ft.tag = "Some"
    /\ \E back \in into_systime(time.ft.value) :
           time' = [time EXCEPT !.step = "back", !.back = back]
    /\ UNCHANGED archive_vars

TimeNext ==
    \/ FromSystemTime
    \/ IntoSystime

SpecTime == InitTime /\ [][TimeNext]_vars

(***************************************************************************)
(* Properties.                                                             *)
(***************************************************************************)
IsNormal(component) == ~IsParentDir(component) /\ ~IsCurDir(component)
AllNormal(path) == \A k \in 1..Len(path) : IsNormal(path[k])

\* the last mutation has completed: all its writes are in the file
Completed(op) == Idle /\ last.op = op

\* C1: after a successful create_file of a path of normal names, open_file of the
\* path yields a File entry with the path's last name and size 0, and
\* open_directory of every proper prefix yields a Directory entry.
C1_CreateThenResolve ==
    (Completed("create_file") /\ last.err = "" /\ AllNormal(last.path)) =>
        LET f == open_file(chains, last.path)
        IN  /\ f.err = ""
            /\ is_file(get(chains[f.chain], f.idx))
            /\ get(chains[f.chain], f.idx).name = last.path[Len(last.path)]
            /\ get(chains[f.chain], f.idx).size = 0
            /\ \A k \in 1..(Len(last.path) - 1) :
                   LET d == open_directory(chains, SubSeq(last.path, 1, k))
                   IN  /\ d.err = ""
                       /\ d.chain \in DOMAIN chains
                       /\ is_dir(get(chains[d.chain], d.idx))

\* /d/e/a was created with both of its directories created on demand
C1_Witness ==
    /\ Completed("create_file")
    /\ last.err = ""
    /\ last.path = << "d", "e", "a" >>
    /\ open_directory(before.chains, << "d" >>).err = "NotFound"

\* C2: after a successful delete_file of a path, open_file of the path fails with
\* NotFound, and the slot is Empty in the BlockManager and in the file.
C2_DeleteTombstone ==
    (Completed("delete_file") /\ last.err = "") =>
        /\ open_file(chains, last.path).err = "NotFound"
        /\ is_empty(get(chains[last.chain], last.idx))
        /\ entry_at(blocks, file_offset_for_entry(chains[last.chain], last.idx))
               = EmptyEntry

\* C3: create_file of a path that already resolves to an entry, File or
\* Directory, fails with AlreadyExists and creates nothing.
C3_AlreadyExists ==
    (last.op = "create_file"
        /\ resolve_path_to_entry_and_parent(before.chains, PK2_ROOT_BLOCK,
                                            last.path).err = "") =>
        /\ last.err = "AlreadyExists"
        /\ chains = before.chains
        /\ blocks = before.blocks
        /\ pending = << >>

LastSlot == PK2_FILE_BLOCK_ENTRY_COUNT

\* the next_block links of a chain of the BlockManager
LinkedInMemory(chain) ==
    \A k \in 1..Len(chain) :
        chain[k].entries[LastSlot].next =
            IF k < Len(chain) THEN chain[k + 1].offset ELSE 0

\* the same links, as stored in the file
LinkedInFile(chain) ==
    \A k \in 1..Len(chain) :
        /\ chain[k].offset \in DOMAIN blocks
        /\ blocks[chain[k].offset][LastSlot].next =
               IF k < Len(chain) THEN chain[k + 1].offset ELSE 0

\* C4: in every chain of the BlockManager, and in the file, the next_block of
\* the last entry of a block is the offset of the next block of the chain, and
\* zero in the chain's last block.
C4_ChainLink ==
    /\ opened => \A c \in DOMAIN chains : LinkedInMemory(chains[c])
    /\ Idle => \A c \in DOMAIN chains : LinkedInFile(chains[c])

\* the chains of the BlockManager that hold a normal directory entry pointing at c
HoldersOf(c) ==
    {p \in DOMAIN chains :
        \E i \in 0..(num_entries(chains[p]) - 1) :
            is_normal_link(get(chains[p], i)) /\ get(chains[p], i).pos = c}

DotEntries(entries, self, parent) ==
    /\ is_dir(entries[1])
    /\ entries[1].name = PK2_CURRENT_DIR_IDENT
    /\ entries[1].pos = self
    /\ is_dir(entries[2])
    /\ entries[2].name = PK2_PARENT_DIR_IDENT
    /\ entries[2].pos = parent

\* C5: every non-root chain starts with `.` pointing at its own first block and
\* `..` pointing at the first block of the chain that holds its directory
\* entry, in the BlockManager and, once the mutation has completed, in the file.
C5_DotAndDotDot ==
    opened =>
        \A c \in DOMAIN chains \ {PK2_ROOT_BLOCK} :
            /\ chain_index(chains[c]) = c
            /\ HoldersOf(c) # {}
            /\ \A p \in HoldersOf(c) :
                   /\ DotEntries(chains[c][1].entries, c, chain_index(chains[p]))
                   /\ Idle => DotEntries(blocks[c], c, chain_index(chains[p]))

\* a directory created inside a directory that is not the root, after a
\* delete_file
C5_Witness ==
    /\ Completed("delete_file")
    /\ last.err = ""
    /\ \E c \in DOMAIN chains \ {PK2_ROOT_BLOCK} :
           HoldersOf(c) # {} /\ PK2_ROOT_BLOCK \notin HoldersOf(c)

\* C6: the BlockManager holds the root chain, whose entry 0 is the directory `.`
\* pointing at the root block, and so does the file.
C6_Root ==
    /\ PK2_ROOT_BLOCK \in DOMAIN blocks
    /\ is_dir(blocks[PK2_ROOT_BLOCK][1])
    /\ blocks[PK2_ROOT_BLOCK][1].name = PK2_CURRENT_DIR_IDENT
    /\ blocks[PK2_ROOT_BLOCK][1].pos = PK2_ROOT_BLOCK
    /\ opened =>
           /\ PK2_ROOT_BLOCK \in DOMAIN chains
           /\ chain_index(chains[PK2_ROOT_BLOCK]) = PK2_ROOT_BLOCK
           /\ is_dir(get(chains[PK2_ROOT_BLOCK], 0))
           /\ get(chains[PK2_ROOT_BLOCK], 0).name = PK2_CURRENT_DIR_IDENT
           /\ get(chains[PK2_ROOT_BLOCK], 0).pos = PK2_ROOT_BLOCK

\* create_file has taken slot 1, next to the root's `.`, in a root whose later
\* slots hold entries: the lowest Empty slot was 1, not 0
C6_Witness ==
    /\ Completed("create_file")
    /\ last.err = ""
    /\ last.chain = PK2_ROOT_BLOCK
    /\ last.idx = 1
    /\ \E i \in 2..(num_entries(before.chains[PK2_ROOT_BLOCK]) - 1) :
           ~is_empty(get(before.chains[PK2_ROOT_BLOCK], i))

EmptySlots(chain) == {i \in 0..(num_entries(chain) - 1) : is_empty(get(chain, i))}

\* the slot create_file took in the root for a path of one component
TookLowestEmptySlot(old, new) ==
    /\ last.idx \in EmptySlots(old)
    /\ \A j \in EmptySlots(old) : last.idx <= j
    /\ Len(new) = Len(old)
    /\ file_len = before.file_len
    /\ DOMAIN blocks = DOMAIN before.blocks

GrewByOneBlock(old, new) ==
    /\ Len(new) = Len(old) + 1
    /\ SubSeq(new, 1, Len(old) - 1) = SubSeq(old, 1, Len(old) - 1)
    /\ new[Len(new)].offset = before.file_len
    /\ new[Len(old)].entries[LastSlot].next = before.file_len
    /\ last.idx = num_entries(old)
    /\ file_len = before.file_len + PK2_FILE_BLOCK_SIZE
    /\ DOMAIN blocks = DOMAIN before.blocks \cup {before.file_len}
    /\ blocks[new[Len(old)].offset][LastSlot].next = before.file_len

\* C7: create_file takes the lowest Empty slot of the chain; only when the chain
\* has none it appends one block at the end of the file, linked from the
\* previous last entry, and takes its slot 0.  After 21 files were created in
\* the root of a fresh archive the root chain has 2 blocks, the first linked to
\* the second.
C7_FindOrCreateSlot ==
    /\ (Completed("create_file") /\ last.err = "" /\ Len(last.path) = 1) =>
           LET old == before.chains[PK2_ROOT_BLOCK]
               new == chains[PK2_ROOT_BLOCK]
           IN  /\ last.chain = PK2_ROOT_BLOCK
               /\ is_file(get(new, last.idx))
               /\ IF EmptySlots(old) # {}
                      THEN TookLowestEmptySlot(old, new)
                      ELSE GrewByOneBlock(old, new)
    /\ (Idle /\ ops = 0 /\ fillers = PK2_FILE_BLOCK_ENTRY_COUNT + 1) =>
           /\ Len(chains[PK2_ROOT_BLOCK]) = 2
           /\ chains[PK2_ROOT_BLOCK][1].entries[LastSlot].next =
                  chains[PK2_ROOT_BLOCK][2].offset
           /\ blocks[PK2_ROOT_BLOCK][LastSlot].next = chains[PK2_ROOT_BLOCK][2].offset

\* 21 files were created in the root of a fresh archive
C7_Witness == Idle /\ ops = 0 /\ fillers = PK2_FILE_BLOCK_ENTRY_COUNT + 1

\* a block of the file that begins a directory chain
IsChainStart(offset) ==
    /\ offset \in DOMAIN blocks
    /\ is_dir(blocks[offset][1])
    /\ blocks[offset][1].name = PK2_CURRENT_DIR_IDENT
    /\ blocks[offset][1].pos = offset

\* C8: at every point between the writes of a mutation, every non-zero
\* next_block stored in the file is the offset of a block of the file, and
\* every children_position of a stored directory entry is the offset of a
\* written block that begins a chain.
C8_NoDanglingPointer ==
    \A o \in DOMAIN blocks :
        \A i \in 1..PK2_FILE_BLOCK_ENTRY_COUNT :
            /\ blocks[o][i].next # 0 => blocks[o][i].next \in DOMAIN blocks
            /\ is_dir(blocks[o][i]) => blocks[o][i].pos \in DOMAIN blocks
            /\ is_normal_link(blocks[o][i]) => IsChainStart(blocks[o][i].pos)

\* a create_file that grows the root and creates a directory has written its
\* new blocks, and the directory entry is still to be written
C8_Witness ==
    /\ opened
    /\ Len(pending) = 1
    /\ last.op = "create_file"
    /\ Len(chains[PK2_ROOT_BLOCK]) > Len(before.chains[PK2_ROOT_BLOCK])
    /\ DOMAIN chains # DOMAIN before.chains

\* the paths looked up before and after an interrupted mutation
Probes ==
    { << "a" >>, << "d" >>, << "d", "a" >>, << "d", "e" >>, << "d", "e", "a" >>,
      << "n" >> } \cup { << FillerNames[k] >> : k \in 1..Len(FillerNames) }

SameEntry(e1, e2) ==
    /\ e1.kind = e2.kind
    /\ e1.name = e2.name
    /\ e1.pos = e2.pos
    /\ e1.size = e2.size

StillResolves(path) ==
    LET r1 == resolve_path_to_entry_and_parent(before.chains, PK2_ROOT_BLOCK, path)
        r2 == resolve_path_to_entry_and_parent(chains, PK2_ROOT_BLOCK, path)
    IN  r1.err = "" =>
            /\ r2.err = ""
            /\ SameEntry(get(before.chains[r1.chain], r1.idx),
                         get(chains[r2.chain], r2.idx))

Interrupted == last.op \in {"interrupted_create_file", "interrupted_delete_file"}

\* C9: after a create_file or delete_file was interrupted between its writes,
\* opening the file succeeds, every chain loaded is linked, and every path that
\* resolved before the mutation still resolves to the same entry, except the
\* path being deleted.
C9_InterruptConsistency ==
    Interrupted =>
        /\ opened
        /\ \A c \in DOMAIN chains : LinkedInMemory(chains[c])
        /\ \A path \in Probes :
               (last.op = "interrupted_delete_file" /\ path = last.path)
                   \/ StillResolves(path)

\* C10: after every completed create_file and delete_file the BlockManager is
\* the index BlockManager::new loads from the file.
C10_CacheCoherence ==
    (Completed("create_file") \/ Completed("delete_file")) =>
        /\ BlockManager_new(blocks).err = ""
        /\ BlockManager_new(blocks).chains = chains

\* the path of a lookup or mutation leaves the root: it begins with `..`, or it
\* goes up twice from the existing directory /d
LeavesRoot(path) ==
    /\ path \in EscapePaths
    /\ path[1] = "d" => open_directory(before.chains, << "d" >>).err = ""

\* C11: open_file, open_directory and delete_file of a path with a `..` that
\* leaves the root (/.., /../a, /d/../../a with /d a directory) fail with
\* InvalidPath.
C11_EscapeInvalidPath ==
    (last.op \in {"open_file", "open_directory", "delete_file"}
        /\ LeavesRoot(last.path)) =>
        last.err = "InvalidPath"

\* C12: create_file of a path with a `..` that leaves the root fails with
\* InvalidPath, when the `..` is met among existing directories (/../a) and
\* when it follows a directory the call has just created (/x/../../a).
C12_CreateEscapeInvalidPath ==
    (last.op = "create_file"
        /\ last.path \in { << "..", "a" >>, << "x", "..", "..", "a" >> }) =>
        last.err = "InvalidPath"

\* the path with each `name/..` pair cancelled
RECURSIVE cancel(_, _)
cancel(path, acc) ==
    IF path = << >> THEN acc
    ELSE IF IsParentDir(Head(path))
        THEN cancel(Tail(path), SubSeq(acc, 1, Len(acc) - 1))
        ELSE cancel(Tail(path), Append(acc, Head(path)))

\* every directory the path goes through exists
GoesThroughDirectories(path) ==
    \A k \in 1..Len(path) :
        open_directory(chains, cancel(SubSeq(path, 1, k), << >>)).err = ""

\* C13: open_directory of a path that goes up with `..` through existing
\* directories and stays inside the archive succeeds, and yields a directory with
\* the children chain of the path with each `name/..` pair cancelled.
C13_ParentTraversal ==
    (last.op = "open_directory" /\ last.path \in ParentPaths
        /\ GoesThroughDirectories(last.path)) =>
        /\ last.err = ""
        /\ is_dir(get(chains[last.chain], last.idx))
        /\ pos_children(chains, last) =
               pos_children(chains, open_directory(chains, cancel(last.path, << >>)))

\* /n/e/../.. was opened with /n/e existing: it yields the children of the root
C13_Witness ==
    /\ last.op = "open_directory"
    /\ last.path = << "n", "e", "..", ".." >>
    /\ last.err = ""
    /\ open_directory(chains, << "n", "e" >>).err = ""
    /\ pos_children(chains, last) = PK2_ROOT_BLOCK

\* the index of the file loads
Loadable == BlockManager_new(blocks).err = ""

\* C14, as stated: an archive created with key K, the empty key included, is
\* opened by K and by no other key: open with any other key fails with
\* InvalidKey.
C14_KeyCheckAnyKey ==
    (last.op = "open" /\ Loadable) =>
        /\ last.key = key => last.err = ""
        /\ last.key # key => last.err = "InvalidKey"

\* C14, amended: an archive created with a non-empty key K is opened by K, and
\* open fails with InvalidKey for every key the cipher rejects or that encrypts
\* the checksum plaintext to another value than the header's checksum field; an
\* archive created with the empty key is opened by every key.
C14_KeyCheck ==
    (last.op = "open" /\ Loadable) =>
        /\ last.key = key => last.err = ""
        /\ key # "" =>
               /\ Blowfish_new(last.key).err # "" => last.err = "InvalidKey"
               /\ encrypt(Blowfish_new(last.key).bf, PK2_CHECKSUM) # header.verify
                      => last.err = "InvalidKey"
        /\ key = "" => last.err = "" /\ blowfish = NoBlowfish

\* an archive created by create_new with the key K1 was opened with the key K2
C14_Witness ==
    /\ last.op = "open"
    /\ key = "K1"
    /\ header = new_encrypted(Blowfish_new("K1").bf)
    /\ blocks[PK2_ROOT_BLOCK] = RootEntries
    /\ last.key = "K2"
    /\ last.err = "InvalidKey"
    /\ ~opened

\* following next_block from the block at the offset comes back to a block
\* already visited
RECURSIVE ChainLoops(_, _)
ChainLoops(offset, seen) ==
    IF offset \in seen THEN TRUE
    ELSE IF offset \notin DOMAIN blocks THEN FALSE
    ELSE IF blocks[offset][PK2_FILE_BLOCK_ENTRY_COUNT].next = 0 THEN FALSE
    ELSE ChainLoops(blocks[offset][PK2_FILE_BLOCK_ENTRY_COUNT].next,
                    seen \cup { offset })

\* C15: reading the chain at any offset of any file terminates, with
\* MalformedChain when the next_block links loop; opening a file whose root
\* chain loops fails with MalformedChain.
C15_ChainReaderTerminates ==
    last.op = "open" =>
        /\ \A o \in DOMAIN blocks :
               LET r == read_chain_from_file_at(blocks, o, << >>, MaxLoad)
               IN  /\ r.err # "Diverges"
                   /\ ChainLoops(o, {}) => r.err = "MalformedChain"
        /\ (last.err # "InvalidKey" /\ ChainLoops(PK2_ROOT_BLOCK, {})) =>
               last.err = "MalformedChain"

\* the blocks the loader reads: those reached from the root by next_block links
\* and by the children_position of normal-link directories
LinksOf(o) ==
    ({ blocks[o][i].pos : i \in { j \in 1..PK2_FILE_BLOCK_ENTRY_COUNT :
                                     is_normal_link(blocks[o][j]) } }
        \cup { blocks[o][PK2_FILE_BLOCK_ENTRY_COUNT].next }) \ { 0 }

RECURSIVE ReachedFrom(_, _)
ReachedFrom(set, steps) ==
    IF steps = 0 THEN set
    ELSE ReachedFrom(set \cup UNION { LinksOf(o) : o \in set \cap DOMAIN blocks },
                     steps - 1)

Loaded == ReachedFrom({ PK2_ROOT_BLOCK }, Cardinality(DOMAIN blocks))

\* a block the loader reads is reached again from itself
HasLoop ==
    \E o \in Loaded \cap DOMAIN blocks :
        o \in ReachedFrom(LinksOf(o), Cardinality(DOMAIN blocks))

\* two normal-link directory entries of blocks the loader reads carry the same
\* children_position
DuplicateChildren ==
    \E o1, o2 \in Loaded \cap DOMAIN blocks :
        \E i1, i2 \in 1..PK2_FILE_BLOCK_ENTRY_COUNT :
            /\ << o1, i1 >> # << o2, i2 >>
            /\ is_normal_link(blocks[o1][i1])
            /\ is_normal_link(blocks[o2][i2])
            /\ blocks[o1][i1].pos = blocks[o2][i2].pos

\* C16: opening a file in which two normal-link directory entries carry the
\* same children_position fails with Corrupt.
C16_DuplicateCorrupt ==
    (last.op = "open" /\ last.err # "InvalidKey" /\ DuplicateChildren /\ ~HasLoop) =>
        last.err = "Corrupt"

\* the files of the directory with children chain c and of the directories
\* below it, each with its path from that directory
RECURSIVE files_below(_, _, _)
files_below(c, prefix, depth) ==
    IF depth = 0 \/ c \notin DOMAIN chains THEN {}
    ELSE LET slots == 0..(num_entries(chains[c]) - 1)
         IN  { [path |-> Append(prefix, get(chains[c], i).name), chain |-> c,
                idx |-> i] : i \in { j \in slots : is_file(get(chains[c], j)) } }
             \cup UNION { files_below(get(chains[c], i).pos,
                                      Append(prefix, get(chains[c], i).name),
                                      depth - 1) :
                          i \in { j \in slots : is_normal_link(get(chains[c], j)) } }

\* C17: for_each_file(base, cb) calls cb once for every file in base or below
\* it, and for no other, with the file's path relative to base.
C17_ForEachFile ==
    (last.op = "for_each_file" /\ last.err = "") =>
        /\ \A i, j \in 1..Len(calls) :
               (calls[i].chain = calls[j].chain /\ calls[i].idx = calls[j].idx)
                   => i = j
        /\ { calls[i] : i \in 1..Len(calls) } =
               files_below(pos_children(chains, open_directory(chains, last.path)),
                           << >>, MaxBlocks)

\* C18: converting a SystemTime at or after 1970 to a FILETIME and back with
\* into_systime returns Some of the same SystemTime.
C18_FiletimeRoundTrip ==
    /\ time.step = "filetime" => time.ft.tag = "Some"
    /\ time.step = "back" => time.back = Some(time.t)

\* the step begins the operation op on the open archive
Begins(op) == (ops' # ops \/ fillers' # fillers) /\ last'.op = op

\* the change of one slot in a step of the operation op on the path: none, or
\* Empty -> File for the last name of a created path, Empty -> Directory for an
\* earlier name of it, File -> Empty for the last name of a deleted path
SlotStep(op, path, e, f) ==
    \/ SameEntry(e, f)
    \/ /\ op = "create_file"
       /\ e.kind = "Empty"
       /\ f.kind = "File"
       /\ f.name = path[Len(path)]
    \/ /\ op = "create_file"
       /\ e.kind = "Empty"
       /\ f.kind = "Directory"
       /\ \E k \in 1..(Len(path) - 1) : f.name = path[k]
    \/ /\ op = "delete_file"
       /\ e.kind = "File"
       /\ f.kind = "Empty"
       /\ e.name = path[Len(path)]

\* every slot of the index before the step is there after it, in the same
\* block of the same chain, and has made a step of the state machine
SlotsStep(op, path, old, new) ==
    \A c \in DOMAIN old :
        /\ c \in DOMAIN new
        /\ Len(old[c]) <= Len(new[c])
        /\ \A b \in 1..Len(old[c]) : old[c][b].offset = new[c][b].offset
        /\ \A i \in 0..(num_entries(old[c]) - 1) :
               SlotStep(op, path, get(old[c], i), get(new[c], i))

\* C19: in every create_file and delete_file each slot of the index keeps its
\* entry or changes Empty -> File (last name of the created path), Empty ->
\* Directory (an earlier name of it) or File -> Empty (delete_file): no Directory
\* becomes Empty or File, no File becomes a Directory or another File.
C19_EntrySlotStateMachine ==
    [][ /\ Begins("create_file") => SlotsStep("create_file", last'.path, chains, chains')
        /\ Begins("delete_file") => SlotsStep("delete_file", last'.path, chains, chains')
      ]_vars

\* a file of a directory has been deleted: its slot was File and is Empty, and
\* the slot had been Empty in the new archive
C19_Witness ==
    /\ last.op = "delete_file"
    /\ last.err = ""
    /\ Len(last.path) > 1
    /\ get(before.chains[last.chain], last.idx).kind = "File"
    /\ get(chains[last.chain], last.idx).kind = "Empty"
    /\ \E c \in DOMAIN chains : \E i \in 0..(num_entries(chains[c]) - 1) :
           is_normal_link(get(chains[c], i))

\* the blocks of the index, each as << chain index, position in the chain >>
BlocksOf(index) ==
    UNION { { << c, b >> : b \in 1..Len(index[c]) } : c \in DOMAIN index }

OffsetsOf(index) == { index[cb[1]][cb[2]].offset : cb \in BlocksOf(index) }

\* C20: after any create_file and delete_file on an archive made by create_new
\* every key of the BlockManager is the offset of the first block of its chain,
\* no offset belongs to two blocks of the index, and the blocks allocated by the
\* last operation lie at or beyond the end the file had when it began.
C20_NoAliasing ==
    opened =>
        /\ \A c \in DOMAIN chains : chain_index(chains[c]) = c
        /\ \A x, y \in BlocksOf(chains) :
               chains[x[1]][x[2]].offset = chains[y[1]][y[2]].offset => x = y
        /\ \A o \in OffsetsOf(chains) \ OffsetsOf(before.chains) :
               o >= before.file_len

\* a create_file has grown the full root chain by a block and allocated the
\* chain of a new directory after it
C20_Witness ==
    /\ Completed("create_file")
    /\ last.err = ""
    /\ Len(chains[PK2_ROOT_BLOCK]) = 2
    /\ Len(before.chains[PK2_ROOT_BLOCK]) = 1
    /\ Cardinality(DOMAIN chains) > Cardinality(DOMAIN before.chains)

\* the kind of the entry the path resolves to in the index, or "" when it does
\* not resolve
KindAt(index, path) ==
    LET r == resolve_path_to_entry_and_parent(index, PK2_ROOT_BLOCK, path)
    IN  IF r.err # "" THEN "" ELSE get(index[r.chain], r.idx).kind

\* a proper prefix of the path resolves to a File
GoesThroughFile(index, path) ==
    \E k \in 1..(Len(path) - 1) : KindAt(index, SubSeq(path, 1, k)) = "File"

Unchanged ==
    /\ chains = before.chains
    /\ blocks = before.blocks
    /\ file_len = before.file_len
    /\ pending = << >>

\* C21: open_file and open_file_mut of a path that resolves to a Directory give
\* ExpectedFile, open_directory of a path that resolves to a File gives
\* ExpectedDirectory, delete_file of a path that resolves to a Directory gives
\* ExpectedFile and changes neither the index nor the file, and each of them
\* gives ExpectedDirectory for a path that goes on below a File.
C21_KindChecks ==
    /\ (last.op \in { "open_file", "open_file_mut" }
            /\ KindAt(before.chains, last.path) = "Directory")
           => last.err = "ExpectedFile"
    /\ (last.op = "open_directory" /\ KindAt(before.chains, last.path) = "File")
           => last.err = "ExpectedDirectory"
    /\ (last.op = "delete_file" /\ KindAt(before.chains, last.path) = "Directory")
           => (last.err = "ExpectedFile" /\ Unchanged)
    /\ (last.op \in { "open_file", "open_file_mut", "open_directory", "delete_file" }
            /\ GoesThroughFile(before.chains, last.path))
           => last.err = "ExpectedDirectory"

\* delete_file has been given the directory /n/e while the file /a exists, that
\* open_file_mut cannot go below
C21_Witness ==
    /\ last.op = "delete_file"
    /\ last.path = << "n", "e" >>
    /\ KindAt(before.chains, last.path) = "Directory"
    /\ GoesThroughFile(chains, << "a", "b" >>)
    /\ open_file_mut(chains, << "a", "b" >>).err = "ExpectedDirectory"

\* the slots of the index whose entry differs, each as << chain index, entry index >>
SlotsChangedInMemory(old, new) ==
    UNION { { << c, i >> : i \in { j \in 0..(num_entries(new[c]) - 1) :
                                     \/ c \notin DOMAIN old
                                     \/ j >= num_entries(old[c])
                                     \/ get(old[c], j) # get(new[c], j) } }
            : c \in DOMAIN new }

\* the file offsets of the 128-byte slots whose content differs
SlotsChangedOnDisk(old, new) ==
    UNION { { o + PK2_FILE_ENTRY_SIZE * (k - 1) :
                  k \in { j \in 1..PK2_FILE_BLOCK_ENTRY_COUNT :
                              o \notin DOMAIN old \/ old[o][j] # new[o][j] } }
            : o \in DOMAIN new }

\* C22: a successful delete_file(p) changes exactly the entry slot p resolved
\* to, in the index and in the file; the file's length, the chain indices and
\* the number of blocks of every chain stay as they were.
C22_DeleteFileFrame ==
    (Completed("delete_file") /\ last.err = "") =>
        /\ SlotsChangedInMemory(before.chains, chains) = { << last.chain, last.idx >> }
        /\ SlotsChangedOnDisk(before.blocks, blocks) =
               { file_offset_for_entry(chains[last.chain], last.idx) }
        /\ file_len = before.file_len
        /\ DOMAIN chains = DOMAIN before.chains
        /\ DOMAIN blocks = DOMAIN before.blocks
        /\ \A c \in DOMAIN chains : Len(chains[c]) = Len(before.chains[c])

\* two slots of the chain hold non-Empty entries of one name
HasDuplicateName(chain) ==
    \E i, j \in 0..(num_entries(chain) - 1) :
        /\ i < j
        /\ ~is_empty(get(chain, i))
        /\ ~is_empty(get(chain, j))
        /\ get(chain, i).name = get(chain, j).name

\* C23: after every successful create_file and delete_file no chain of the index
\* holds two non-Empty entries of the same name, also for create_file paths with
\* `..` after the first component that does not exist.
C23_NameUniqueness ==
    ((Completed("create_file") \/ Completed("delete_file")) /\ last.err = "") =>
        \A c \in DOMAIN chains : ~HasDuplicateName(chains[c])

\* a normal-link directory entry of a chain the loader reads points at the root
\* chain or at the chain that holds it
PointsAtAncestor ==
    \E o \in Loaded \cap DOMAIN blocks : \E i \in 1..PK2_FILE_BLOCK_ENTRY_COUNT :
        /\ is_normal_link(blocks[o][i])
        /\ blocks[o][i].pos \in { PK2_ROOT_BLOCK, o }

\* C24: BlockManager::new terminates on every file, also on one where a
\* directory entry's children_position is the offset of the root chain or of
\* another ancestor chain, and reads no chain offset twice.
C24_IndexLoadTerminates ==
    (last.op = "open" /\ last.err # "InvalidKey") =>
        LET reads == load_reads(blocks, << PK2_ROOT_BLOCK >>, MaxWalk)
        IN  /\ last.err # "Diverges"
            /\ \A i, j \in 1..Len(reads) : reads[i] = reads[j] => i = j

====
